---- MODULE Spec2Model ----
(***************************************************************************)
(* A model of csim.c, the trace-driven LRU cache simulator: the address    *)
(* decomposition, the per-set linked lists of cache lines, accessData,     *)
(* the replay loop of replayTrace and the control flow of main.            *)
(*                                                                         *)
(* Values of type mem_addr_t (unsigned long long) and int are kept as the  *)
(* set of their one-bits (bit 0 is the least significant), so that the     *)
(* full 64 and 32 bit widths are modelled.                                  *)
(***************************************************************************)
EXTENDS Integers, Sequences, FiniteSets, TLC

VARIABLES
    s, E, b,            \* globals set from the command line
    verbosity,
    trace_file,         \* "NULL", or the name of the trace
    optind,             \* getopt's count of the options consumed
    output,             \* the messages printed, in order
    cache,              \* cache[i]: the first line of set i
    heap,               \* heap[n]: the cache_line_t n, [valid, tag, next]
    hit_count, miss_count, eviction_count,
    addr,               \* replayTrace's local addr (kept across lines)
    buf,                \* replayTrace's buf as last filled by fgets
    pc,                 \* position of main
    exit_status,        \* -1 while running, else the status of exit/return
    summary,            \* what printSummary was given, <<>> before
    dec,                \* the last address decomposition computed
    lru,                \* reference: per set, the tags MRU first (spec 4.2)
    ref,                \* reference counters of the canonical algorithm
    serviced,           \* number of accesses the replayed records ask for
    last,               \* outcomes of the accessData calls of the last line
    history             \* the addresses given to accessData so far

vars == <<s, E, b, verbosity, trace_file, optind, output, cache, heap, hit_count, miss_count,
          eviction_count, addr, buf, pc, exit_status, summary, dec, lru,
          ref, serviced, last, history>>

(***************************************************************************)
(* Bounds of the model.                                                    *)
(***************************************************************************)
MaxS == 2
MaxB == 1
MaxE == 3
MaxAccesses == 5
MaxHistory == 4
MaxParsed == 3
MaxOptions == 4
MaxMainLines == 2

(***************************************************************************)
(* Widths of the C types.                                                  *)
(***************************************************************************)
IntBits == 32
AddrBits == 64

NULL == 0

Max(x, y) == IF x >= y THEN x ELSE y

RECURSIVE Pow2(_)
Pow2(n) == IF n <= 0 THEN 1 ELSE 2 * Pow2(n - 1)

\* The natural number whose one-bits are `bits` (used below 2^31 only).
RECURSIVE BitsToNat(_)
BitsToNat(bits) ==
    IF bits = {} THEN 0
    ELSE LET i == CHOOSE x \in bits : \A y \in bits : x >= y
         IN  Pow2(i) + BitsToNat(bits \ {i})

\* x >> n on 64-bit unsigned values, 0 <= n < 64.
ShrAddr(x, n) == {i - n : i \in {j \in x : j >= n}}

(***************************************************************************)
(* accessData, lines 148-161: the decomposition of addr.                   *)
(*   mem_addr_t mask = ((1 << s) - 1) << b;    -- evaluated in int        *)
(*   mem_addr_t m = mask & addr;  int s_bits = m >> b;                     *)
(*   mem_addr_t t_bits = addr >> (s+b);                                    *)
(* The int expression is defined when neither shift overflows int:         *)
(* 0 <= s, 0 <= b and s + b <= 31 (and s <= 30).  Outside that range the   *)
(* behaviour is undefined; ub names the outcome the build produces:        *)
(*   "wrap": 32-bit shifts with the count taken modulo 32 and the result   *)
(*           truncated, the int then sign-extended to 64 bits;             *)
(*   "zero": as "wrap", but a count outside 0..31 shifts every bit out;    *)
(*   "wide": the expression evaluated in a 64-bit register.                *)
(***************************************************************************)
UBOutcomes == {"wrap", "zero", "wide"}

MaskDefined(sv, bv) ==
    /\ sv >= 0 /\ sv <= IntBits - 2
    /\ bv >= 0 /\ bv <= IntBits - 1
    /\ sv + bv <= IntBits - 1

\* x << n on int under the outcome ub, x given by its bits.
ShlInt(x, n, ub) ==
    IF ub = "zero" /\ (n < 0 \/ n >= IntBits) THEN {}
    ELSE LET c == n % IntBits
         IN  {i + c : i \in {j \in x : j + c < IntBits}}

\* int -> unsigned long long: sign extension.
SignExtend(x) ==
    IF (IntBits - 1) \in x THEN x \cup (IntBits .. AddrBits - 1) ELSE x

Mask(sv, bv, ub) ==
    IF MaskDefined(sv, bv) THEN bv .. (bv + sv - 1)
    ELSE IF ub = "wide" THEN
        {i \in (bv % AddrBits) .. ((bv % AddrBits) + (sv % AddrBits) - 1) :
            i < AddrBits}
    ELSE LET one   == ShlInt({0}, sv, ub)
             \* (1 << s) - 1 with wrap-around: 0 - 1 is -1, 2^k - 1 is k ones
             ones  == IF one = {} THEN 0 .. (IntBits - 1)
                      ELSE 0 .. ((CHOOSE k \in one : TRUE) - 1)
         IN  SignExtend(ShlInt(ones, bv, ub))

\* int s_bits = m >> b: the low 32 bits of the shifted value.
SBits(a, sv, bv, ub) ==
    LET m == Mask(sv, bv, ub) \cap a
    IN  {i \in ShrAddr(m, bv % AddrBits) : i < IntBits}

TBits(a, sv, bv) == ShrAddr(a, (sv + bv) % AddrBits)


(***************************************************************************)
(* initCache, lines 76-117.  S = pow(2, s) truncated to int; each set gets *)
(* one line allocated unconditionally and E - 1 more (none when E <= 1),   *)
(* linked in allocation order, every line with valid = 0 and tag = 0.      *)
(* Lines are numbered in allocation order from 1.                          *)
(***************************************************************************)
SetCount(sv) == IF sv < 0 THEN 0 ELSE Pow2(sv)

LinesPerSet(Ev) == Max(Ev, 1)

InitCacheSets(sv, Ev) ==
    [i \in 0 .. (SetCount(sv) - 1) |-> i * LinesPerSet(Ev) + 1]

InitCacheLines(sv, Ev) ==
    [n \in 1 .. (SetCount(sv) * LinesPerSet(Ev)) |->
        [valid |-> 0, tag |-> {},
         next  |-> IF (n - 1) % LinesPerSet(Ev) = LinesPerSet(Ev) - 1
                   THEN NULL ELSE n + 1]]

(***************************************************************************)
(* accessData, lines 146-261.  A machine state m is the record             *)
(* [cache, heap, hit, miss, evict, ub]; ub is set once the call has        *)
(* undefined behaviour (an undefined shift, an index outside cache[], a    *)
(* NULL line->next dereferenced), after which nothing is known of it.      *)
(***************************************************************************)

\* Lines 174-211, the search loop: the line whose successor holds the tag,
\* NULL when the loop ends without a match, -1 when line->next is NULL
\* where the loop reads (line->next)->tag.
RECURSIVE HitScan(_, _, _, _)
HitScan(h, line, e, t) ==
    IF e <= 1 THEN NULL
    ELSE IF h[line].next = NULL THEN -1
    ELSE IF h[h[line].next].tag = t /\ h[h[line].next].valid = 1 THEN line
    ELSE HitScan(h, h[line].next, e - 1, t)

\* Mutant of MoveToFront: the line found and the first line exchange
\* their tags, and the list stays as it is.
MoveToFrontBySwap(m, i, line) ==
    LET found == m.heap[line].next
        first == m.cache[i]
    IN  [m EXCEPT !.heap = [m.heap EXCEPT ![first].tag = m.heap[found].tag,
                                          ![found].tag = m.heap[first].tag]]

\* Mutant of MoveToFront: the line found stays where it is in the list.
MoveToFrontNone(m, i, line) == m

\* Lines 185-200: the successor of `line` becomes the first line of set i.
MoveToFront(m, i, line) ==
    LET next_first       == m.heap[line].next
        after_next_first == m.heap[next_first].next
        curr_first       == m.cache[i]
    IN  [m EXCEPT !.cache[i] = next_first,
                  !.heap = [m.heap EXCEPT ![line].next = after_next_first,
                                          ![next_first].next = curr_first]]

\* Mutant of MissScan: the scan does not advance.
MissScanStuck(h, check) == check

\* Lines 223-225: the scan for an open line, started at the first line.
RECURSIVE MissScan(_, _)
MissScan(h, check) ==
    IF /\ h[check].next # NULL
       /\ h[h[check].next].valid = 1
       /\ h[h[check].next].next # NULL
    THEN MissScan(h, h[check].next)
    ELSE check

\* Mutant of FillFirst: the tag is stored but valid is not set.
FillFirstNoValid(m, i, t) == [m EXCEPT !.heap[m.cache[i]].tag = t]

\* Lines 226-229: the first line is invalid and takes the tag in place.
FillFirst(m, i, t) ==
    [m EXCEPT !.heap[m.cache[i]].tag = t, !.heap[m.cache[i]].valid = 1]

\* Mutant of FillOpen: the open line takes the tag where it is.
FillOpenInPlace(m, i, check, t) ==
    [m EXCEPT !.heap[m.heap[check].next].tag = t,
              !.heap[m.heap[check].next].valid = 1]

\* Mutant of FillOpen: the line is linked first but valid is not set.
FillOpenNoValid(m, i, check, t) ==
    LET open       == m.heap[check].next
        after_next == m.heap[open].next
        curr_first == m.cache[i]
    IN  [m EXCEPT !.cache[i] = open,
                  !.heap = [m.heap EXCEPT
                               ![open] = [valid |-> 0, tag |-> t,
                                          next |-> curr_first],
                               ![check].next = after_next]]

\* Lines 230-239: the invalid successor of check takes the tag and becomes
\* the first line.
FillOpen(m, i, check, t) ==
    LET open       == m.heap[check].next
        after_next == m.heap[open].next
        curr_first == m.cache[i]
    IN  [m EXCEPT !.cache[i] = open,
                  !.heap = [m.heap EXCEPT
                               ![open] = [valid |-> 1, tag |-> t,
                                          next |-> curr_first],
                               ![check].next = after_next]]

\* Mutant of EvictOnly: the eviction is not counted.
EvictOnlyUncounted(m, check, t) ==
    [m EXCEPT !.heap[check].tag = t, !.heap[check].valid = 1]

\* Lines 240-246: a set of one line, evicted in place.
EvictOnly(m, check, t) ==
    [m EXCEPT !.heap[check].tag = t, !.heap[check].valid = 1,
              !.evict = m.evict + 1]

\* Mutant of EvictLast: check keeps its link to the victim.
EvictLastNoCut(m, i, check, t) ==
    LET victim     == m.heap[check].next
        curr_first == m.cache[i]
    IN  [m EXCEPT !.evict = m.evict + 1,
                  !.cache[i] = victim,
                  !.heap = [m.heap EXCEPT
                               ![victim] = [valid |-> 1, tag |-> t,
                                            next |-> curr_first]]]

\* Mutant of EvictLast: the victim takes the tag where it is.
EvictLastInPlace(m, i, check, t) ==
    [m EXCEPT !.evict = m.evict + 1,
              !.heap[m.heap[check].next].tag = t,
              !.heap[m.heap[check].next].valid = 1]

\* Lines 248-259: the valid last line is evicted, takes the tag and becomes
\* the first line; check becomes the last line.
EvictLast(m, i, check, t) ==
    LET victim     == m.heap[check].next
        curr_first == m.cache[i]
    IN  [m EXCEPT !.evict = m.evict + 1,
                  !.cache[i] = victim,
                  !.heap = [m.heap EXCEPT
                               ![victim] = [valid |-> 1, tag |-> t,
                                            next |-> curr_first],
                               ![check].next = NULL]]

\* Lines 214-260, the miss path.
Miss(m, i, t) ==
    LET m1    == [m EXCEPT !.miss = m.miss + 1]
        first == m.cache[i]
        e     == IF m.heap[first].valid = 0 THEN 0 ELSE 1
        check == IF e = 0 THEN first ELSE MissScan(m.heap, first)
    IN  IF e = 0 THEN FillFirst(m1, i, t)
        ELSE IF m.heap[check].next # NULL
                /\ m.heap[m.heap[check].next].valid = 0
             THEN FillOpen(m1, i, check, t)
        ELSE IF m.heap[check].next = NULL THEN EvictOnly(m1, check, t)
        ELSE EvictLast(m1, i, check, t)

\* Mutant of Lookup: only the first line is compared.
LookupFirstOnly(m, i, t, Ev) ==
    IF m.heap[m.cache[i]].tag = t /\ m.heap[m.cache[i]].valid = 1
    THEN [m EXCEPT !.hit = m.hit + 1]
    ELSE Miss(m, i, t)

\* Lines 161-211: the hit test of the first line, then the search loop.
Lookup(m, i, t, Ev) ==
    LET first == m.cache[i]
    IN  IF m.heap[first].tag = t /\ m.heap[first].valid = 1
        THEN [m EXCEPT !.hit = m.hit + 1]
        ELSE LET line == HitScan(m.heap, first, Ev, t)
             IN  IF line = -1 THEN [m EXCEPT !.ub = TRUE]
                 ELSE IF line # NULL
                 THEN MoveToFront([m EXCEPT !.hit = m.hit + 1], i, line)
                 ELSE Miss(m, i, t)

\* The set index accessData uses for address a, as a number; -1 when it
\* is negative as an int.
\* Mutant of SetIndex: every address is taken to set 0.
SetIndexZero(a, sv, bv, ub) == 0

SetIndex(a, sv, bv, ub) ==
    LET sb == SBits(a, sv, bv, ub)
    IN  IF (IntBits - 1) \in sb THEN -1 ELSE BitsToNat(sb)

AccessData(m, a, sv, Ev, bv) ==
    IF m.ub THEN m
    ELSE IF ~MaskDefined(sv, bv) \/ sv + bv >= AddrBits
         THEN [m EXCEPT !.ub = TRUE]
    ELSE LET i == SetIndex(a, sv, bv, "wrap")
         IN  IF i \notin DOMAIN m.cache THEN [m EXCEPT !.ub = TRUE]
             ELSE Lookup(m, i, TBits(a, sv, bv), Ev)


(***************************************************************************)
(* Reference semantics, spec sections 4.1 and 4.2: the decomposition       *)
(* setIndex = (address >> b) mod 2^s, tag = address >> (s + b), and the    *)
(* canonical strict-LRU access on a sequence of at most E tags, MRU first. *)
(***************************************************************************)
RefSetBits(a, sv, bv) == {i - bv : i \in {j \in a : j >= bv /\ j < bv + sv}}

RefTag(a, sv, bv) == {i - (sv + bv) : i \in {j \in a : j >= sv + bv}}

Without(seq, t) == SelectSeq(seq, LAMBDA x : x # t)

Front(seq) == SubSeq(seq, 1, Len(seq) - 1)

Contains(seq, t) == \E k \in 1 .. Len(seq) : seq[k] = t

RefOutcome(set, t, Ev) ==
    IF Contains(set, t) THEN "hit"
    ELSE IF Len(set) < Ev THEN "miss"
    ELSE "miss_evict"

RefSet(set, t, Ev) ==
    IF Contains(set, t) THEN <<t>> \o Without(set, t)
    ELSE IF Len(set) < Ev THEN <<t>> \o set
    ELSE <<t>> \o Front(set)

RefCount(r, out) ==
    [hits      |-> r.hits + (IF out = "hit" THEN 1 ELSE 0),
     misses    |-> r.misses + (IF out = "hit" THEN 0 ELSE 1),
     evictions |-> r.evictions + (IF out = "miss_evict" THEN 1 ELSE 0)]

\* The reference state q = [sets, count] after an access to a.
RefAccess(q, a, sv, Ev, bv) ==
    LET i == BitsToNat(RefSetBits(a, sv, bv))
        t == RefTag(a, sv, bv)
    IN  IF i \notin DOMAIN q.sets THEN q
        ELSE [sets  |-> [q.sets EXCEPT ![i] = RefSet(q.sets[i], t, Ev)],
              count |-> RefCount(q.count, RefOutcome(q.sets[i], t, Ev))]

(***************************************************************************)
(* replayTrace, lines 283-305.  A line is the sequence of characters fgets *)
(* stores before the terminating NUL.                                      *)
(***************************************************************************)
HexDigits == <<"0", "1", "2", "3", "4", "5", "6", "7",
               "8", "9", "a", "b", "c", "d", "e", "f">>

IsHex(c) == \E k \in 1 .. Len(HexDigits) : HexDigits[k] = c

HexValue(c) == (CHOOSE k \in 1 .. Len(HexDigits) : HexDigits[k] = c) - 1

IsSpace(c) == c \in {" ", "\n", "\t"}

\* buf[k] (k counted from 0) after fgets stored `line`.
BufAt(line, k) == IF k < Len(line) THEN line[k + 1] ELSE "NUL"

\* The position (from 0) of the first character at or after k that is not
\* white space: what %llx skips.
RECURSIVE SkipSpace(_, _)
SkipSpace(line, k) ==
    IF IsSpace(BufAt(line, k)) THEN SkipSpace(line, k + 1) ELSE k

\* The number of hexadecimal digits from position k on.
RECURSIVE HexRun(_, _)
HexRun(line, k) ==
    IF IsHex(BufAt(line, k)) THEN 1 + HexRun(line, k + 1) ELSE 0

\* The bits of the value of the n hexadecimal digits at position k; a value
\* that does not fit 64 bits converts to ULLONG_MAX.
HexBits(line, k, n) ==
    IF 4 * n > AddrBits THEN 0 .. (AddrBits - 1)
    ELSE UNION {{4 * (n - 1 - d) + i : i \in
                    {j \in 0 .. 3 :
                        (HexValue(BufAt(line, k + d)) \div Pow2(j)) % 2 = 1}} :
                d \in 0 .. (n - 1)}

\* sscanf(buf+3, "%llx,%u", &addr, &len): addr afterwards, given its value
\* before (kept when no digit is converted).  Signs and a 0x prefix are
\* not in the alphabet of the modelled lines.
ScanAddr(line, old) ==
    LET k == SkipSpace(line, 3)
        n == HexRun(line, k)
    IN  IF n = 0 THEN old ELSE HexBits(line, k, n)

\* Mutant of Recognized: the operation character may be the first or the
\* second character.
RecognizedFirstOrSecond(line) ==
    \/ BufAt(line, 0) \in {"S", "L", "M"}
    \/ BufAt(line, 1) \in {"S", "L", "M"}

\* Mutant of Recognized: the operation character is looked for after the
\* leading white space.
RecognizedAfterSpace(line) ==
    BufAt(line, SkipSpace(line, 0)) \in {"S", "L", "M"}

\* Line 284: the record test on the second character.
Recognized(line) == BufAt(line, 1) \in {"S", "L", "M"}

\* Mutant of Calls: the second call of an M record is left out.
CallsOnce(line) == 1

\* Lines 299-303: the number of accessData calls of a recognized line.
Calls(line) == IF BufAt(line, 1) = "M" THEN 2 ELSE 1

\* What a recognized record counts for in the number of serviced accesses:
\* 2 for an M record, 1 for an L or S record.
RecordWeight(line) == IF BufAt(line, 1) = "M" THEN 2 ELSE 1

Machine ==
    [cache |-> cache, heap |-> heap, hit |-> hit_count, miss |-> miss_count,
     evict |-> eviction_count, ub |-> pc = "undefined"]

RefState == [sets |-> lru, count |-> ref]

\* How the counters classify the call that led from machine state m to n.
Outcome(m, n) ==
    IF n.ub THEN "undefined"
    ELSE IF n.hit = m.hit + 1 /\ n.miss = m.miss /\ n.evict = m.evict
         THEN "hit"
    ELSE IF n.hit = m.hit /\ n.miss = m.miss + 1 /\ n.evict = m.evict
         THEN "miss"
    ELSE IF n.hit = m.hit /\ n.miss = m.miss + 1 /\ n.evict = m.evict + 1
         THEN "miss_evict"
    ELSE "other"

\* The accessData calls of a recognized line (lines 299-303) from machine
\* state m0, with the reference run beside them.
Service(line, a, m0, q0) ==
    LET m1 == AccessData(m0, a, s, E, b)
        q1 == RefAccess(q0, a, s, E, b)
    IN  IF Calls(line) = 2
        THEN LET m2 == AccessData(m1, a, s, E, b)
             IN  [m |-> m2, q |-> RefAccess(q1, a, s, E, b),
                  outs |-> <<Outcome(m0, m1), Outcome(m1, m2)>>]
        ELSE [m |-> m1, q |-> q1, outs |-> <<Outcome(m0, m1)>>]

\* One iteration of the while loop of replayTrace on the line fgets read.
ReplayLine(line) ==
    /\ pc = "replay"
    /\ IF Recognized(line)
       THEN \E a \in {ScanAddr(line, addr)} :
            \E r \in {Service(line, a, Machine, RefState)} :
                /\ addr' = a
                /\ cache' = r.m.cache
                /\ heap' = r.m.heap
                /\ hit_count' = r.m.hit
                /\ miss_count' = r.m.miss
                /\ eviction_count' = r.m.evict
                /\ pc' = IF r.m.ub THEN "undefined" ELSE pc
                /\ lru' = r.q.sets
                /\ ref' = r.q.count
                /\ serviced' = serviced + RecordWeight(line)
                /\ last' = r.outs
       ELSE /\ UNCHANGED <<addr, cache, heap, hit_count, miss_count,
                           eviction_count, pc, lru, ref, serviced>>
            /\ last' = <<>>
    /\ UNCHANGED <<s, E, b, verbosity, trace_file, optind, output,
                   exit_status, summary, dec>>

(***************************************************************************)
(* The traces replayed: records with zero, one or two leading spaces, an   *)
(* operation character, a space, a hexadecimal address, a comma, a length  *)
(* and the newline; and a few lines that are no records.                   *)
(***************************************************************************)
AddrTexts ==
    {<<d>> : d \in {"0", "1", "2"}}
        \cup {<<d, "0">> : d \in {"1", "2", "3"}}

Record(lead, op, text) == lead \o <<op, " ">> \o text \o <<",", "1", "\n">>

Records(leads, ops, texts) ==
    {Record(lead, op, text) : lead \in leads, op \in ops, text \in texts}

OtherLines == {<<"\n">>, <<" ", "L", "\n">>, <<"=", "=", " ", "1", "\n">>}

CoreLines == Records({<<" ">>}, {"L", "S", "M"}, AddrTexts) \cup OtherLines

\* The lines of the traces whose parsing is observed.
ParseTexts == {<<"0">>, <<"2">>, <<"1", "0">>}

\* Lines that begin with I and carry a letter behind it.
LetterLines == {<<"I", op, " ", "2", ",", "1", "\n">> : op \in {"M", "x"}}

AllLines ==
    Records({<<>>, <<" ">>, <<" ", " ">>}, {"I", "L", "S", "M"}, ParseTexts)
        \cup OtherLines \cup LetterLines

\* The lines of the traces whose accesses are recorded in history.
HistTexts == {<<"0">>, <<"1">>, <<"1", "0">>, <<"2", "0">>, <<"3", "0">>}

HistLines == Records({<<" ">>}, {"L", "M"}, HistTexts)

(***************************************************************************)
(* The cache core: a freshly constructed cache of a valid geometry, and    *)
(* the replay of one line after another.                                   *)
(***************************************************************************)
Constructed(sv, Ev, bv) ==
    /\ s = sv /\ E = Ev /\ b = bv
    /\ verbosity = 0
    /\ trace_file = "yi.trace"
    /\ optind = 0
    /\ output = <<>>
    /\ cache = InitCacheSets(sv, Ev)
    /\ heap = InitCacheLines(sv, Ev)
    /\ hit_count = 0 /\ miss_count = 0 /\ eviction_count = 0
    /\ addr = {}
    /\ buf = <<>>
    /\ pc = "replay"
    /\ exit_status = -1
    /\ summary = <<>>
    /\ dec = <<>>
    /\ lru = [i \in 0 .. (Pow2(sv) - 1) |-> <<>>]
    /\ ref = [hits |-> 0, misses |-> 0, evictions |-> 0]
    /\ serviced = 0
    /\ last = <<>>
    /\ history = <<>>

Init ==
    \E sv \in 1 .. MaxS, Ev \in 1 .. MaxE, bv \in 1 .. MaxB :
        Constructed(sv, Ev, bv)

Next ==
    \E line \in CoreLines :
        /\ serviced + Calls(line) <= MaxAccesses
        /\ ReplayLine(line)
        /\ UNCHANGED <<buf, history>>

Spec == Init /\ [][Next]_vars


(***************************************************************************)
(* Views of the state used by the properties.                              *)
(***************************************************************************)
RECURSIVE Chain(_, _, _)
Chain(h, n, fuel) ==
    IF n = NULL \/ fuel = 0 THEN <<>>
    ELSE <<n>> \o Chain(h, h[n].next, fuel - 1)

\* The lines of set i in list order, from cache[i].
SetLines(i) == Chain(heap, cache[i], Cardinality(DOMAIN heap) + 1)

\* The tags of the valid lines of set i, in list order.
ValidTags(i) ==
    LET ls == SelectSeq(SetLines(i), LAMBDA n : heap[n].valid = 1)
    IN  [k \in 1 .. Len(ls) |-> heap[ls[k]].tag]

Distinct(seq) ==
    \A j, k \in 1 .. Len(seq) : j # k => seq[j] # seq[k]

\* The value of a hexadecimal text of the modelled lines, as address bits.
TextBits(text) == HexBits(text, 0, Len(text))

ProbeAddrs == {TextBits(text) : text \in AddrTexts}

AccessOutcomes == {"hit", "miss", "miss_evict"}

(***************************************************************************)
(* C1: for every geometry and every sequence of accesses on a fresh cache, *)
(* accessData classifies each access as the canonical strict-LRU algorithm *)
(* of spec 4.2 does: the three counters equal the reference counters, and  *)
(* the valid lines of every set, in list order, carry the reference        *)
(* MRU-first tag sequence.                                                 *)
(***************************************************************************)
C1_RefinesCanonicalLRU ==
    /\ pc = "replay"
    /\ hit_count = ref.hits
    /\ miss_count = ref.misses
    /\ eviction_count = ref.evictions
    /\ DOMAIN cache = DOMAIN lru
    /\ \A i \in DOMAIN cache : ValidTags(i) = lru[i]

\* A full set of three lines has seen a hit and then an eviction.
C1_Witness ==
    /\ E = 3
    /\ hit_count = 1
    /\ eviction_count = 1
    /\ last = <<"miss_evict">>

(***************************************************************************)
(* C2: hit_count + miss_count equals the number of serviced accesses, 1    *)
(* for each recognized L or S record and 2 for each recognized M record;   *)
(* every accessData call increments exactly one of the two counters by 1.  *)
(***************************************************************************)
C2_Conservation ==
    /\ hit_count + miss_count = serviced
    /\ \A k \in 1 .. Len(last) : last[k] \in AccessOutcomes

C2_Witness ==
    /\ Len(last) = 2
    /\ hit_count >= 2
    /\ miss_count >= 2

(***************************************************************************)
(* C4: in every reachable state, the second of two accesses in direct      *)
(* succession to the same address is a hit: it increments hit_count only.  *)
(* This holds for every address probed from the state and for the second   *)
(* access of every M record replayed.                                      *)
(***************************************************************************)
C4_SecondAccessHits ==
    /\ \A a \in ProbeAddrs :
          \E m1 \in {AccessData(Machine, a, s, E, b)} :
              Outcome(m1, AccessData(m1, a, s, E, b)) = "hit"
    /\ Len(last) = 2 => last[2] = "hit"

C4_Witness == last = <<"miss_evict", "hit">>

(***************************************************************************)
(* C5: every set holds at most E valid lines, and no two valid lines of a  *)
(* set carry the same tag.                                                 *)
(***************************************************************************)
C5_SetInvariant ==
    \A i \in DOMAIN cache :
        /\ Len(ValidTags(i)) <= E
        /\ Distinct(ValidTags(i))
        /\ Cardinality({n \in DOMAIN heap :
                           heap[n].valid = 1 /\ (n - 1) \div LinesPerSet(E) = i}) <= E

\* A full set of three lines after an eviction.
C5_Witness ==
    /\ eviction_count >= 1
    /\ \E i \in DOMAIN cache : Len(ValidTags(i)) = 3


(***************************************************************************)
(* The cache core with the accesses recorded: history holds the address of *)
(* every accessData call since construction.                               *)
(***************************************************************************)
NextHist ==
    \E line \in HistLines :
        /\ Len(history) + Calls(line) <= MaxHistory
        /\ ReplayLine(line)
        /\ history' = history \o [k \in 1 .. Calls(line) |-> addr']
        /\ UNCHANGED buf

SpecHist == Init /\ [][NextHist]_vars

SameSet(h) ==
    \A k \in 1 .. Len(h) : RefSetBits(h[k], s, b) = RefSetBits(h[1], s, b)

DistinctTags(h) == Distinct([k \in 1 .. Len(h) |-> RefTag(h[k], s, b)])

\* What filling a set with h[1], ..., h[E] and then accessing h[E+1]
\* gives: misses only, one eviction at the last access, and the set left
\* with the tags of h[E+1], ..., h[2], so that the tag of h[1] is evicted.
FillThenEvict(h) ==
    /\ hit_count = 0
    /\ miss_count = Len(h)
    /\ Len(h) <= E => eviction_count = 0
    /\ Len(h) = E + 1 =>
          /\ eviction_count = 1
          /\ ValidTags(BitsToNat(RefSetBits(h[1], s, b)))
                = [k \in 1 .. E |-> RefTag(h[E + 2 - k], s, b)]

(***************************************************************************)
(* C3 (as amended): on a fresh cache, accessing E addresses of pairwise    *)
(* distinct tags that map to the same set gives E misses and no eviction;  *)
(* a further address of that set with yet another tag gives exactly one    *)
(* more miss and one eviction, and the line evicted is the one of the      *)
(* first address accessed, the least recently touched.                     *)
(***************************************************************************)
C3_CapacityEviction ==
    (/\ Len(history) >= 1 /\ Len(history) <= E + 1
     /\ SameSet(history) /\ DistinctTags(history))
        => FillThenEvict(history)

C3_Witness ==
    /\ E = 3
    /\ Len(history) = 4
    /\ SameSet(history) /\ DistinctTags(history)
    /\ last = <<"miss_evict">>

\* C3 as stated: the E + 1 addresses are only required to be distinct.
C3_Original ==
    (/\ Len(history) >= 1 /\ Len(history) <= E + 1
     /\ SameSet(history) /\ Distinct(history))
        => FillThenEvict(history)

(***************************************************************************)
(* C6: on a fresh cache, a trace that accesses one address k >= 1 times    *)
(* and nothing else gives 1 miss, k - 1 hits and no eviction.              *)
(***************************************************************************)
C6_RepeatedAddress ==
    (/\ Len(history) >= 1
     /\ \A k \in 1 .. Len(history) : history[k] = history[1])
        => /\ miss_count = 1
           /\ hit_count = Len(history) - 1
           /\ eviction_count = 0

C6_Witness ==
    /\ Len(history) >= 3
    /\ \A k \in 1 .. Len(history) : history[k] = history[1]
    /\ history[1] # {}


(***************************************************************************)
(* The replay loop with the line read kept in buf, on the cache of the     *)
(* geometry s = 1, E = 1, b = 1 of the scenarios of spec section 8.        *)
(***************************************************************************)
InitParse == Constructed(1, 1, 1)

NextParse ==
    \E line \in AllLines :
        /\ serviced + Calls(line) <= MaxParsed
        /\ ReplayLine(line)
        /\ buf' = line
        /\ UNCHANGED history

SpecParse == InitParse /\ [][NextParse]_vars

DataOps == {"L", "S", "M"}

\* buf holds a data record of operation op and address text `text` behind
\* the leading characters `lead`.
IsRecord(lead, op, text) == buf = Record(lead, op, text)

\* The record in buf was serviced: accessData was called once (L, S) or
\* twice (M) with the address of the record.
ServicedAs(op, text) ==
    /\ Len(last) = (IF op = "M" THEN 2 ELSE 1)
    /\ addr = TextBits(text)

(***************************************************************************)
(* C10 (as amended): a data record (operation character in {L, S, M}, a    *)
(* space, a hexadecimal address, a comma, a decimal length) is serviced,   *)
(* as 1 access for L or S and 2 for M, when exactly one space precedes the *)
(* operation character; the same record with the operation character as   *)
(* the first character of the line, or behind two spaces, is skipped: no   *)
(* access is made for it.                                                  *)
(***************************************************************************)
C10_RecordNeedsOneLeadingSpace ==
    \A op \in DataOps, text \in ParseTexts :
        /\ IsRecord(<<" ">>, op, text) => ServicedAs(op, text)
        /\ IsRecord(<<>>, op, text) => last = <<>>
        /\ IsRecord(<<" ", " ">>, op, text) => last = <<>>

C10_Witness ==
    /\ IsRecord(<<" ">>, "M", <<"1", "0">>)
    /\ last = <<"miss_evict", "hit">>
    /\ addr = {4}

\* C10 as stated: the record is serviced with or without leading space.
C10_Original ==
    \A op \in DataOps, text \in ParseTexts :
        /\ IsRecord(<<" ">>, op, text) => ServicedAs(op, text)
        /\ IsRecord(<<>>, op, text) => ServicedAs(op, text)


(***************************************************************************)
(* The address decomposition alone, lines 148-161, over geometries up to   *)
(* the width of int and addresses up to 64 bits.                           *)
(***************************************************************************)
DecodeS == {1, 2, 30}

DecodeB == {1, 2, 29, 30, 31, 32}

DecodeAddrs == SUBSET {0, 1, 2, 30, 31, 32, 33, 63}

Idle ==
    /\ verbosity = 0 /\ trace_file = "NULL" /\ optind = 0 /\ output = <<>>
    /\ cache = <<>> /\ heap = <<>>
    /\ hit_count = 0 /\ miss_count = 0 /\ eviction_count = 0
    /\ buf = <<>> /\ exit_status = -1 /\ summary = <<>> /\ dec = <<>>
    /\ lru = <<>> /\ ref = [hits |-> 0, misses |-> 0, evictions |-> 0]
    /\ serviced = 0 /\ last = <<>> /\ history = <<>>

InitDecode ==
    /\ s \in DecodeS /\ b \in DecodeB /\ E = 1
    /\ addr \in DecodeAddrs
    /\ pc = "decode"
    /\ Idle

DecodeAddress ==
    /\ pc = "decode"
    /\ \E ub \in UBOutcomes :
          dec' = [s_bits |-> SBits(addr, s, b, ub), t_bits |-> TBits(addr, s, b)]
    /\ pc' = "decoded"
    /\ UNCHANGED <<s, E, b, verbosity, trace_file, optind, output, cache,
                   heap, hit_count, miss_count, eviction_count, addr, buf,
                   exit_status, summary, lru, ref, serviced, last, history>>

SpecDecode == InitDecode /\ [][DecodeAddress]_vars

(***************************************************************************)
(* C7: for every 64-bit address and every geometry with s > 0 and b > 0,   *)
(* the set index accessData computes is (address >> b) mod 2^s, which lies *)
(* in [0, S), and the tag it compares is address >> (s + b).               *)
(***************************************************************************)
C7_DecodeAsSpecified ==
    pc = "decoded" =>
        /\ dec.s_bits = RefSetBits(addr, s, b)
        /\ dec.s_bits \subseteq 0 .. (s - 1)
        /\ dec.t_bits = RefTag(addr, s, b)

\* Where the int arithmetic is defined (s + b <= 31) the decomposition is
\* the specified one.
DecodeDefinedRange ==
    (pc = "decoded" /\ MaskDefined(s, b)) =>
        /\ dec.s_bits = RefSetBits(addr, s, b)
        /\ dec.t_bits = RefTag(addr, s, b)


(***************************************************************************)
(* main, lines 345-394, from the command line on.                          *)
(***************************************************************************)
Digits == <<"0", "1", "2", "3", "4", "5", "6", "7", "8", "9">>

IsDigit(c) == \E k \in 1 .. Len(Digits) : Digits[k] = c

DigitValue(c) == (CHOOSE k \in 1 .. Len(Digits) : Digits[k] = c) - 1

\* The value of the decimal digits of text from position k (from 1) on,
\* given the value acc of the digits before.
RECURSIVE AtoiFrom(_, _, _)
AtoiFrom(text, k, acc) ==
    IF k > Len(text) \/ ~IsDigit(text[k]) THEN acc
    ELSE AtoiFrom(text, k + 1, 10 * acc + DigitValue(text[k]))

\* atoi(optarg), lines 353-359: an optional sign, then the leading digits;
\* 0 when there is none.
Atoi(text) ==
    IF Len(text) >= 1 /\ text[1] = "-" THEN 0 - AtoiFrom(text, 2, 0)
    ELSE AtoiFrom(text, 1, 0)

\* The option arguments of the modelled command lines, and the trace files
\* named; only those of TraceFiles can be opened.
NumberArgs == {<<"-", "1">>, <<"0">>, <<"1">>, <<"2">>, <<"x">>}

FileArgs == {"yi.trace", "missing.trace"}

TraceFiles == {"yi.trace"}

MainLines ==
    Records({<<" ">>}, {"L", "M"}, ParseTexts)
        \cup Records({<<>>}, {"I"}, {<<"0">>})

\* printUsage, lines 313-327: prints the usage text and ends the process
\* with status 0.
PrintUsage ==
    /\ output' = Append(output, "usage")
    /\ exit_status' = 0
    /\ pc' = "exited"

\* Lines 350-374: one option taken by getopt.
GetOpt ==
    /\ pc = "getopt"
    /\ optind < MaxOptions
    /\ optind' = optind + 1
    /\ \/ \E arg \in NumberArgs :
             /\ s' = Atoi(arg)
             /\ UNCHANGED <<E, b, trace_file, verbosity, pc, output,
                            exit_status>>
       \/ \E arg \in NumberArgs :
             /\ E' = Atoi(arg)
             /\ UNCHANGED <<s, b, trace_file, verbosity, pc, output,
                            exit_status>>
       \/ \E arg \in NumberArgs :
             /\ b' = Atoi(arg)
             /\ UNCHANGED <<s, E, trace_file, verbosity, pc, output,
                            exit_status>>
       \/ \E arg \in FileArgs :
             /\ trace_file' = arg
             /\ UNCHANGED <<s, E, b, verbosity, pc, output, exit_status>>
       \/ /\ verbosity' = 1
          /\ UNCHANGED <<s, E, b, trace_file, pc, output, exit_status>>
       \/ \* -h, or an option getopt does not know: printUsage
          /\ PrintUsage
          /\ UNCHANGED <<s, E, b, trace_file, verbosity>>
    /\ UNCHANGED <<cache, heap, hit_count, miss_count, eviction_count, addr,
                   buf, summary, dec, lru, ref, serviced, last, history>>

\* Lines 376-381: getopt returned -1; the test of the required arguments.
CheckArgs ==
    /\ pc = "getopt"
    /\ IF s = 0 \/ E = 0 \/ b = 0 \/ trace_file = "NULL"
       THEN \E o \in {Append(output, "missing")} :
               /\ output' = Append(o, "usage")
               /\ exit_status' = 0
               /\ pc' = "exited"
       ELSE /\ pc' = "init"
            /\ UNCHANGED <<output, exit_status>>
    /\ UNCHANGED <<s, E, b, verbosity, trace_file, optind, cache, heap,
                   hit_count, miss_count, eviction_count, addr, buf, summary,
                   dec, lru, ref, serviced, last, history>>

\* Line 384: initCache().
InitCache ==
    /\ pc = "init"
    /\ cache' = InitCacheSets(s, E)
    /\ heap' = InitCacheLines(s, E)
    /\ lru' = [i \in 0 .. (SetCount(s) - 1) |-> <<>>]
    /\ pc' = "open"
    /\ UNCHANGED <<s, E, b, verbosity, trace_file, optind, output, hit_count,
                   miss_count, eviction_count, addr, buf, exit_status,
                   summary, dec, ref, serviced, last, history>>

\* Lines 276-281: fopen of the trace, exit(1) when it fails.
OpenTrace ==
    /\ pc = "open"
    /\ IF trace_file \in TraceFiles
       THEN /\ pc' = "replay"
            /\ UNCHANGED <<output, exit_status>>
       ELSE /\ output' = Append(output, "fopen")
            /\ exit_status' = 1
            /\ pc' = "exited"
    /\ UNCHANGED <<s, E, b, verbosity, trace_file, optind, cache, heap,
                   hit_count, miss_count, eviction_count, addr, buf, summary,
                   dec, lru, ref, serviced, last, history>>

\* Lines 283 and 307: fgets returns NULL, the trace is closed.
EndOfTrace ==
    /\ pc = "replay"
    /\ pc' = "free"
    /\ UNCHANGED <<s, E, b, verbosity, trace_file, optind, output, cache,
                   heap, hit_count, miss_count, eviction_count, addr, buf,
                   exit_status, summary, dec, lru, ref, serviced, last,
                   history>>

\* The lines freeCache frees (lines 123-137): for each of the S sets, the
\* lines linked behind cache[i], then cache[i].
FreedLines ==
    UNION {{Chain(heap, cache[i], Cardinality(DOMAIN heap) + 1)[k] :
               k \in 1 .. Len(Chain(heap, cache[i],
                                    Cardinality(DOMAIN heap) + 1))} :
           i \in DOMAIN cache}

\* Line 389: freeCache().
FreeCache ==
    /\ pc = "free"
    /\ heap' = [n \in DOMAIN heap \ FreedLines |-> heap[n]]
    /\ cache' = <<>>
    /\ pc' = "summary"
    /\ UNCHANGED <<s, E, b, verbosity, trace_file, optind, output, hit_count,
                   miss_count, eviction_count, addr, buf, exit_status,
                   summary, dec, lru, ref, serviced, last, history>>

\* Lines 392-393: printSummary and the return from main.
PrintSummary ==
    /\ pc = "summary"
    /\ summary' = <<hit_count, miss_count, eviction_count>>
    /\ output' = Append(output, "summary")
    /\ exit_status' = 0
    /\ pc' = "exited"
    /\ UNCHANGED <<s, E, b, verbosity, trace_file, optind, cache, heap,
                   hit_count, miss_count, eviction_count, addr, buf, dec,
                   lru, ref, serviced, last, history>>

ReplayMain ==
    \E line \in MainLines :
        /\ serviced + Calls(line) <= MaxMainLines
        /\ ReplayLine(line)
        /\ UNCHANGED <<buf, history>>

InitMain ==
    /\ s = 0 /\ E = 0 /\ b = 0
    /\ addr = {}
    /\ pc = "getopt"
    /\ Idle

NextMain ==
    \/ GetOpt
    \/ CheckArgs
    \/ InitCache
    \/ OpenTrace
    \/ ReplayMain
    \/ EndOfTrace
    \/ FreeCache
    \/ PrintSummary

SpecMain == InitMain /\ [][NextMain]_vars

\* The positions of main once initCache has run.
PastCheck == {"open", "replay", "undefined", "free", "summary"}

(***************************************************************************)
(* C8: if any of s, E or b is absent or non-positive, or the trace path is *)
(* absent, the run aborts before initCache constructs any cache and before *)
(* any trace line is replayed.                                             *)
(***************************************************************************)
C8_InvalidConfigurationAborts ==
    (s <= 0 \/ E <= 0 \/ b <= 0 \/ trace_file = "NULL") =>
        /\ pc \notin PastCheck
        /\ cache = <<>>
        /\ serviced = 0
        /\ summary = <<>>

\* What the test of line 377 does ensure: a parameter that is absent or 0.
ZeroConfigurationAborts ==
    (s = 0 \/ E = 0 \/ b = 0 \/ trace_file = "NULL") =>
        /\ pc \notin PastCheck
        /\ cache = <<>>
        /\ summary = <<>>

FatalError ==
    \E k \in 1 .. Len(output) : output[k] \in {"missing", "fopen"}

(***************************************************************************)
(* C9: every fatal error (a configuration error detected in main, a trace  *)
(* that cannot be opened) ends the process with a non-zero exit status and *)
(* without printSummary being called.                                      *)
(***************************************************************************)
C9_FatalErrorExitsNonZero ==
    FatalError =>
        /\ pc = "exited"
        /\ exit_status # 0
        /\ summary = <<>>

(***************************************************************************)
(* The line read by a step is a data record of section 6 of the            *)
(* specification: optional leading space, an operation character in        *)
(* {L, S, M}, a space, a hexadecimal address, a comma, a decimal length.   *)
(***************************************************************************)
DataRecord(line) ==
    \E lead \in {<<>>, <<" ">>, <<" ", " ">>}, op \in DataOps,
       text \in ParseTexts :
        line = Record(lead, op, text)

\* The step left the counters and every cache set alone, made no call of
\* accessData, and replay goes on.
Skipped ==
    /\ UNCHANGED <<hit_count, miss_count, eviction_count, cache, heap>>
    /\ last' = <<>>
    /\ pc' = "replay"

SetOf(a) == BitsToNat(RefSetBits(a, s, b))

TagSet(seq) == {seq[k] : k \in 1 .. Len(seq)}

LastUse(h, i, t) ==
    LET uses == {k \in 1 .. Len(h) : SetOf(h[k]) = i /\ RefTag(h[k], s, b) = t}
    IN  IF uses = {} THEN 0
        ELSE CHOOSE k \in uses : \A j \in uses : j <= k

\* The step made an access (the first of the line read) to tag t of set i,
\* which is not resident in the set, and the set holds E valid lines.
MissInFullSet(i, t) ==
    /\ last' # <<>>
    /\ i = SetOf(addr')
    /\ t = RefTag(addr', s, b)
    /\ t \notin TagSet(ValidTags(i))
    /\ Len(ValidTags(i)) = E

(***************************************************************************)
(* C13: whenever an access misses in a set that holds E valid lines, the   *)
(* tag removed from the set is the one whose most recent access is the     *)
(* oldest among the E resident tags of that set (strict LRU), and every    *)
(* other resident tag stays in the set.                                    *)
(***************************************************************************)
C13_EvictsLeastRecentlyUsed ==
    [][\A i \in DOMAIN cache : \A t \in {RefTag(addr', s, b)} :
        MissInFullSet(i, t) =>
            \E v \in TagSet(ValidTags(i)) :
                /\ \A u \in TagSet(ValidTags(i)) \ {v} :
                       LastUse(history, i, v) < LastUse(history, i, u)
                /\ TagSet(ValidTags(i)')
                      = (TagSet(ValidTags(i)) \ {v}) \cup {t}]_vars

\* a, b, a, c in one set of two lines: b is evicted, a stays.
C13_Witness ==
    /\ E = 2
    /\ Len(history) = 4
    /\ SameSet(history)
    /\ history[1] = history[3]
    /\ DistinctTags(<<history[1], history[2], history[4]>>)
    /\ last = <<"miss_evict">>
    /\ ValidTags(SetOf(history[1]))
          = <<RefTag(history[4], s, b), RefTag(history[1], s, b)>>

\* The valid lines of set i, in list order.
ValidLines(i) == SelectSeq(SetLines(i), LAMBDA n : heap[n].valid = 1)

\* a is b with some elements left out.
RECURSIVE IsSubseq(_, _)
IsSubseq(a, c) ==
    IF a = <<>> THEN TRUE
    ELSE IF c = <<>> THEN FALSE
    ELSE IF Head(a) = Head(c) THEN IsSubseq(Tail(a), Tail(c))
    ELSE IsSubseq(a, Tail(c))

(***************************************************************************)
(* C14: after every accessData call (hit, miss without eviction, or miss   *)
(* with eviction) the line holding the accessed tag is valid and is the    *)
(* head (MRU position) of its set's list, and all other valid lines that   *)
(* remain in that set keep the same relative order they had before the     *)
(* call (and their tags).                                                  *)
(***************************************************************************)
C14_AccessedLineBecomesHead ==
    [][\A i \in DOMAIN cache :
        (last' # <<>> /\ i = SetOf(addr')) =>
            /\ heap'[cache'[i]].valid = 1
            /\ heap'[cache'[i]].tag = RefTag(addr', s, b)
            /\ ValidLines(i)' # <<>>
            /\ Head(ValidLines(i)') = cache'[i]
            /\ IsSubseq(Tail(ValidLines(i)'), ValidLines(i))
            /\ \A k \in 2 .. Len(ValidLines(i)') :
                   heap'[ValidLines(i)'[k]].tag = heap[ValidLines(i)'[k]].tag]_vars

\* a, b, c, a in one set of three lines: the hit on the last line of the
\* list makes it the head, and c, b keep their order behind it.
C14_Witness ==
    /\ E = 3
    /\ Len(history) = 4
    /\ SameSet(history)
    /\ history[4] = history[1]
    /\ DistinctTags(<<history[1], history[2], history[3]>>)
    /\ last = <<"hit">>
    /\ ValidTags(SetOf(history[1]))
          = <<RefTag(history[1], s, b), RefTag(history[3], s, b),
              RefTag(history[2], s, b)>>

(***************************************************************************)
(* C15: eviction_count is incremented (by exactly 1) by an access if and   *)
(* only if that access is a miss (its tag is not resident in its set) and  *)
(* the targeted set already held E valid lines before the access; a miss   *)
(* in a set with fewer than E valid lines and every hit leave              *)
(* eviction_count unchanged, and no counter ever decreases during a run.   *)
(* A step is the service of one line: of M, the access and the hit that    *)
(* follows it.                                                             *)
(***************************************************************************)
C15_EvictionCounted ==
    [][/\ hit_count' >= hit_count
       /\ miss_count' >= miss_count
       /\ eviction_count' >= eviction_count
       /\ last' = <<>> => eviction_count' = eviction_count
       /\ \A i \in DOMAIN cache :
            (last' # <<>> /\ i = SetOf(addr')) =>
                IF /\ RefTag(addr', s, b) \notin TagSet(ValidTags(i))
                   /\ Len(ValidLines(i)) = E
                THEN /\ eviction_count' = eviction_count + 1
                     /\ miss_count' = miss_count + 1
                ELSE eviction_count' = eviction_count]_vars

C15_Witness ==
    /\ E = 2
    /\ last = <<"miss_evict">>
    /\ eviction_count = 1
    /\ miss_count = 3
    /\ hit_count = 1
    /\ Len(ValidLines(SetOf(addr))) = E

(***************************************************************************)
(* C16: an access to an address whose set index is i changes only set i    *)
(* and the counters: for every set j different from i, the lines of set j  *)
(* (their tags, valid bits and recency order) are the same after the       *)
(* access as before it.                                                    *)
(***************************************************************************)
C16_OtherSetsUnchanged ==
    [][last' # <<>> =>
        \A j \in DOMAIN cache \ {SetOf(addr')} :
            /\ cache'[j] = cache[j]
            /\ \A ls \in {SetLines(j)} :
                  /\ SetLines(j)' = ls
                  /\ \A k \in 1 .. Len(ls) : heap'[ls[k]] = heap[ls[k]]]_vars

\* A miss in set 1 while set 0 is full and has evicted.
C16_Witness ==
    /\ E = 2
    /\ SetOf(addr) = 1
    /\ last = <<"miss">>
    /\ Len(ValidLines(0)) = 2
    /\ eviction_count = 1
    /\ Len(ValidLines(1)) = 1

\* The lines whose tag or valid bit the step changes.
Rewritten ==
    {n \in DOMAIN heap :
        heap'[n].tag # heap[n].tag \/ heap'[n].valid # heap[n].valid}

(***************************************************************************)
(* C17: a hit changes no line's tag or valid bit (only the recency order   *)
(* of the targeted set may change); a miss changes the tag/valid of        *)
(* exactly one line of the targeted set (an invalid line on a fill, or the *)
(* evicted line); and a line that is valid never becomes invalid again     *)
(* during a run.                                                           *)
(***************************************************************************)
C17_OneLineRewritten ==
    [][/\ \A n \in DOMAIN heap : heap[n].valid = 1 => heap'[n].valid = 1
       /\ last' # <<>> =>
            \A i \in {SetOf(addr')} : \A t \in {RefTag(addr', s, b)} :
                IF t \in TagSet(ValidTags(i))
                THEN Rewritten = {}
                ELSE \E n \in TagSet(SetLines(i)) :
                        /\ Rewritten = {n}
                        /\ heap'[n].valid = 1
                        /\ heap'[n].tag = t
                        /\ heap[n].valid = 0
                              <=> eviction_count' = eviction_count]_vars

\* Three fills of set 0 and a hit on the last line of its list, which
\* becomes the first.
C17_Witness ==
    /\ E = 3
    /\ last = <<"hit">>
    /\ hit_count = 1
    /\ miss_count = 3
    /\ Len(ValidLines(0)) = 3
    /\ cache[0] = 1

(***************************************************************************)
(* C18: in every reachable state the valid lines of each set form a        *)
(* contiguous prefix of its linked list starting at the head (no invalid   *)
(* line precedes a valid one), so that whenever the set has fewer than E   *)
(* valid lines the miss path finds a free line: the head is invalid, or    *)
(* the scan of lines 223-225 stops before an invalid line.                 *)
(***************************************************************************)
C18_ValidLinesArePrefix ==
    \A i \in DOMAIN cache : \A ls \in {SetLines(i)} :
        /\ \A k \in 1 .. Len(ls) - 1 :
               heap[ls[k]].valid = 0 => heap[ls[k + 1]].valid = 0
        /\ (\E k \in 1 .. Len(ls) : heap[ls[k]].valid = 0) =>
               \/ heap[cache[i]].valid = 0
               \/ \E check \in {MissScan(heap, cache[i])} :
                      /\ heap[check].next # NULL
                      /\ heap[heap[check].next].valid = 0

\* A set of three lines with two valid lines, reordered by a hit, in front
\* of the invalid one.
C18_Witness ==
    /\ E = 3
    /\ hit_count = 1
    /\ miss_count = 2
    /\ last = <<"hit">>
    /\ SetLines(0) = <<1, 2, 3>>
    /\ heap[1].valid = 1 /\ heap[2].valid = 1 /\ heap[3].valid = 0

\* The lines initCache allocates for set i.
Allocated(i) ==
    TagSet(Chain(InitCacheLines(s, E), InitCacheSets(s, E)[i],
                 LinesPerSet(E)))

(***************************************************************************)
(* C19: after initCache and after any sequence of accessData calls with    *)
(* E >= 1, the linked list of every set, from cache[i], ends with NULL     *)
(* after exactly E distinct lines, the lines initCache allocated for the   *)
(* set; the hit loop has not dereferenced a NULL line->next, and the lines *)
(* freeCache visits are all the lines allocated, each in one list only.    *)
(***************************************************************************)
C19_ListsWellFormed ==
    /\ pc # "undefined"
    /\ DOMAIN cache = 0 .. (SetCount(s) - 1)
    /\ \A i \in DOMAIN cache : \A ls \in {SetLines(i)} :
          /\ Len(ls) = E
          /\ Distinct(ls)
          /\ TagSet(ls) = Allocated(i)
          /\ heap[ls[Len(ls)]].next = NULL
    /\ FreedLines = DOMAIN heap
    /\ Cardinality(DOMAIN heap) = SetCount(s) * E

\* A set of three lines after three fills, an eviction and a hit on the
\* last line of the list.
C19_Witness ==
    /\ E = 3
    /\ eviction_count = 1
    /\ hit_count = 1
    /\ last = <<"hit">>
    /\ SetLines(0) = <<2, 1, 3>>

\* The valid lines of the cache.
ValidCount == Cardinality({n \in DOMAIN heap : heap[n].valid = 1})

(***************************************************************************)
(* C20: in every reachable state of a run, miss_count - eviction_count     *)
(* equals the total number of valid lines over all sets of the cache       *)
(* (hence eviction_count <= miss_count and miss_count - eviction_count     *)
(* <= S * E).                                                              *)
(***************************************************************************)
C20_MissesMinusEvictions ==
    /\ miss_count - eviction_count = ValidCount
    /\ eviction_count <= miss_count
    /\ miss_count - eviction_count <= SetCount(s) * E

C20_Witness ==
    /\ E = 1
    /\ miss_count = 3
    /\ eviction_count = 1
    /\ hit_count = 1
    /\ Len(ValidLines(0)) = 1
    /\ Len(ValidLines(1)) = 1

====
